---- MODULE Spec2Model ----
(***************************************************************************)
(* Honeycomb texture generator (src/src/dtools/texture.py) and the         *)
(* hierarchical tile unioner (src/src/dtools/img_tools.py).                *)
(*                                                                         *)
(* Heights are exact rationals kept as integer numerators over the common  *)
(* denominator Den, so the quantisation arithmetic of the height assigner  *)
(* is computed as the code computes it (floating-point rounding aside).    *)
(* Solids are sets: a texture solid is the set of hexagon prisms unioned   *)
(* into it, a tile solid is the set of points it covers.                   *)
(* The geometry functions (hexagon filter, frame builder, candidate grid)  *)
(* are operators over exact integer coordinates, each applied by one       *)
(* action to arguments drawn by its specification's initial condition.     *)
(***************************************************************************)
EXTENDS Integers, Sequences, FiniteSets, TLC

VARIABLES
    details,        \* the HoneycombTexture passed by the caller
    rng,            \* state of the module-global generator behind random.uniform
    h_pc,           \* height assigner: "idle" | "done"
    h_sample,       \* height assigner: the raw random_height drawn
    h_out,          \* height assigner: what lines 367-376 produced
    tiles,          \* union_tiles_hierarchical: the caller's list
    batch_size,     \* union_tiles_hierarchical: its batch_size argument
    current_tiles,  \* union_tiles_hierarchical: local current_tiles
    new_tiles,      \* union_tiles_hierarchical: local new_tiles
    u_i,            \* union_tiles_hierarchical: loop variable i of the batch loop (0-based)
    u_pc,           \* union_tiles_hierarchical: position in the function
    u_ret,          \* union_tiles_hierarchical: the returned workplane
    u_unions,       \* number of kernel union calls made so far
    faces,          \* the faces selected on the workplane passed to the texture call
    t_pc,           \* add_hex_texture_to_faces: position in the call
    fi,             \* add_hex_texture_to_faces: index of the face being processed
    result,         \* add_hex_texture_to_faces: local result, the running solid
    outcome,        \* how the texture call ended: "running", "return" or the exception
    height_groups,  \* _generate_hex_texture_for_face: local height_groups
    gi,             \* _generate_hex_texture_for_face: group reached by the build loop
    pi,             \* _generate_hex_texture_for_face: position reached in that group
    g_result,       \* _generate_hex_texture_for_face: local result, the texture solid
    t_unions,       \* kernel union calls completed in the texture path
    t_clips,        \* clipping volumes built
    construct_failed, \* cells of the current face whose profile/extrusion raised
    union_failed,   \* cells of the current face whose union into the texture raised
    union_raised,   \* some kernel union in the texture path has raised
    workplane,      \* the Workplane object the caller passed to the texture call
    runs,           \* (position, height) pairs of each generator run made so far
    args,           \* arguments of the geometry function under study
    ret,            \* what that function returned
    f_pc            \* "idle" | "call" | "done" for that function

heightVars == <<h_pc, h_sample, h_out>>
unionVars == <<tiles, batch_size, current_tiles, new_tiles, u_i, u_pc, u_ret,
               u_unions>>
textureVars == <<faces, t_pc, fi, result, outcome, height_groups, gi, pi, g_result,
                 t_unions, t_clips, construct_failed, union_failed, union_raised,
                 workplane>>
fnVars == <<args, ret, f_pc>>
vars == <<details, rng, heightVars, unionVars, textureVars, runs, fnVars>>

(***************************************************************************)
(* Bounds of the model.                                                    *)
(***************************************************************************)
MaxHeight == 2      \* hex_height_min, hex_height_max range over 0..MaxHeight
MaxSteps == 3       \* height_steps ranges over 0..MaxSteps
RngLast == 4        \* random.random() yields k/RngLast, k in 0..RngLast
MaxTiles == 5       \* len(tiles) ranges over 0..MaxTiles
MaxBatch == 3       \* batch_size ranges over 1..MaxBatch
MaxCells == 2       \* candidate grid cells over all selected faces together
MaxVerts == 4       \* a face polygon has 3..MaxVerts vertices
Margin == 2         \* hexagon centres lie up to Margin beyond the face's extent
MaxCoord == 2       \* a face normal's coordinates range over -MaxCoord..MaxCoord
MaxExtent == 3      \* a face reaches 1..MaxExtent either side of its centre
MaxSide == 2        \* hex_side_len and spacing_coefficient range over 1..MaxSide
MaxPt == 2          \* segment end points have coordinates in 0..MaxPt
MaxPixels == 6      \* a pixel grid has rows * cols <= MaxPixels pixels
MaxGridCells == 4   \* one face's grid, enumerated on its own, has 1..MaxGridCells cells

RECURSIVE Factorial(_)
Factorial(n) == IF n <= 1 THEN 1 ELSE n * Factorial(n - 1)

\* Common denominator of every height: k/RngLast and x/height_steps are exact.
Den == RngLast * Factorial(MaxSteps)

Min(a, b) == IF a <= b THEN a ELSE b
Max(a, b) == IF a >= b THEN a ELSE b

FnIdle == args = <<>> /\ ret = <<>> /\ f_pc = "idle"

(***************************************************************************)
(* HoneycombTexture and the height assigner.                               *)
(***************************************************************************)
\* texture.py:13-20. The dataclass has no random_seed field.
HoneycombTexture ==
    { [hex_height_min |-> a * Den, hex_height_max |-> b * Den, height_steps |-> n] :
        <<a, b, n>> \in { t \in (0..MaxHeight) \X (0..MaxHeight) \X (0..MaxSteps) :
                            t[1] <= t[2] } }

\* The generator behind the random module: one hidden global state, advanced
\* by every draw, by whoever draws.
RngStates == 0..RngLast
RngNext(s) == (s + 1) % (RngLast + 1)

\* random.uniform(a, b) == a + (b - a) * random(); the end point b may be hit.
random_uniform_unshifted(a, b, s) == a + (b \div RngLast) * s

random_uniform(a, b, s) == a + ((b - a) \div RngLast) * s

\* texture.py:333-336
height_step_size(d) ==
    IF d.height_steps > 1
    THEN (d.hex_height_max - d.hex_height_min) \div d.height_steps
    ELSE 0

\* texture.py:367-376. err is the exception raised ("" when none), divs the
\* number of divisions by height_step_size performed.
discretize_always(d, random_height) ==
    LET step == height_step_size(d) IN
    IF d.height_steps >= 1
    THEN IF step = 0
         THEN [err |-> "ZeroDivisionError", height |-> 0, divs |-> 1]
         ELSE LET step_index == Min((random_height - d.hex_height_min) \div step,
                                    d.height_steps - 1)
              IN [err |-> "", height |-> d.hex_height_min + step_index * step,
                  divs |-> 1]
    ELSE [err |-> "", height |-> random_height, divs |-> 0]

discretize(d, random_height) ==
    LET step == height_step_size(d) IN
    IF d.height_steps > 1
    THEN IF step = 0
         THEN [err |-> "ZeroDivisionError", height |-> 0, divs |-> 1]
         ELSE LET step_index == Min((random_height - d.hex_height_min) \div step,
                                    d.height_steps - 1)
              IN [err |-> "", height |-> d.hex_height_min + step_index * step,
                  divs |-> 1]
    ELSE [err |-> "", height |-> random_height, divs |-> 0]

NoOut == [err |-> "", height |-> 0, divs |-> 0]

HeightIdle == h_pc = "idle" /\ h_sample = 0 /\ h_out = NoOut

\* texture.py:363-376 for one retained hexagon.
AssignHeight ==
    /\ h_pc = "idle"
    /\ LET random_height == random_uniform(details.hex_height_min,
                                           details.hex_height_max, rng)
       IN /\ h_sample' = random_height
          /\ h_out' = discretize(details, random_height)
    /\ rng' = RngNext(rng)
    /\ h_pc' = "done"
    /\ UNCHANGED <<details, unionVars, textureVars, runs, fnVars>>

(***************************************************************************)
(* add_hex_texture_to_faces and _generate_hex_texture_for_face.            *)
(* A face is the sequence of its candidate grid cells in the order the     *)
(* row/column loops visit them; face[k] says where the hexagon of cell k   *)
(* lies: "outside" the face (_hex_would_intersect_face answers False),     *)
(* "inside" it, or across its boundary ("straddles"). A prism is           *)
(* [face, cell, height, parts]; parts says which of its footprint it       *)
(* covers, the part "in" the face's outer boundary and the part "out".     *)
(***************************************************************************)
CellKinds == {"outside", "inside", "straddles"}

Faces == UNION { [1..c -> CellKinds] : c \in 1..MaxCells }

\* The face selections of at most `budget` grid cells in all.
RECURSIVE SelectionsWithin(_)
SelectionsWithin(budget) ==
    {<<>>} \cup
    UNION { { <<face>> \o rest : rest \in SelectionsWithin(budget - Len(face)) } :
            face \in { f \in Faces : Len(f) <= budget } }

FaceSelections == SelectionsWithin(MaxCells)

\* texture.py:360-362, the answer of the filter for cell k
hex_would_intersect(face, k) == face[k] # "outside"

Retained(face) == { k \in 1..Len(face) : hex_would_intersect(face, k) }

\* The caller's workplane as constructed (workplane.py:34-36).
InputWorkplane == [allow_clean |-> TRUE]

\* add_hex_texture_to_faces' local result while it still is the caller's
\* object (texture.py:46): base says the input shape is part of the solid,
\* unioned lists the faces whose texture was unioned in, in order.
InputResult == [base |-> TRUE, prisms |-> {}, unioned |-> <<>>, is_input |-> TRUE]

None == [none |-> TRUE, prisms |-> {}]

\* texture.py:406-412: the prism extruded over the hexagon of cell k of face
\* f; along the face normal it reaches from the face plane (bottom) to top
hex_prism(face, f, k, h) ==
    [face |-> f, cell |-> k, height |-> h, bottom |-> 0, top |-> h,
     parts |-> IF face[k] = "straddles" THEN {"in", "out"} ELSE {"in"}]

\* extrude(distance): from the plane to `distance` along the normal
extrude(distance) == [bottom |-> 0, top |-> distance]

\* translate by normal * offset
translate(slab, offset) == [bottom |-> slab.bottom + offset, top |-> slab.top + offset]

\* texture.py:62-90: the clipping volume, the face's outer wire extruded along
\* the normal; of a footprint it covers what lies in the face's boundary.
face_solid_thin(d) ==
    [parts |-> {"in"},
     span |-> translate(extrude(d.hex_height_max), -((d.hex_height_max * 3) \div 2))]

face_solid(d) ==
    [parts |-> {"in"},
     span |-> translate(extrude(d.hex_height_max * 3), -((d.hex_height_max * 3) \div 2))]

\* texture.py:92, hex_texture.intersect(face_solid)
intersect_nothing(prisms, solid) == prisms

intersect(prisms, solid) ==
    { [p EXCEPT !.parts = @ \cap solid.parts,
                !.bottom = Max(@, solid.span.bottom),
                !.top = Min(@, solid.span.top),
                !.height = Min(p.top, solid.span.top) - Max(p.bottom, solid.span.bottom)] :
        p \in { q \in prisms : /\ q.parts \cap solid.parts # {}
                                /\ Max(q.bottom, solid.span.bottom) <=
                                       Min(q.top, solid.span.top) } }

\* texture.py:93, result.union(clipped_texture) for face f: a new workplane
face_union_replaces(res, clipped_texture, f) ==
    [base |-> FALSE, prisms |-> clipped_texture, unioned |-> <<f>>, is_input |-> FALSE]

face_union(res, clipped_texture, f) ==
    [base |-> res.base, prisms |-> res.prisms \cup clipped_texture,
     unioned |-> Append(res.unioned, f), is_input |-> FALSE]

\* workplane.py:169-177, __merge_allow_clean with another dtools Workplane:
\* the receiver's flag after the call
merge_allow_clean(self_allow_clean, other_allow_clean) ==
    LET merged == self_allow_clean /\ other_allow_clean
    IN FALSE

\* workplane.py:158-167 run on the object `res` names: the caller's workplane
\* after the merge step, which precedes the kernel call
after_union_merge(res, wp) ==
    IF res.is_input
    THEN [wp EXCEPT !.allow_clean = merge_allow_clean(@, TRUE)]
    ELSE wp

\* texture.py:383-385
add_to_group_always_new(groups, h, k) ==
    Append(groups, [height |-> h, positions |-> <<k>>])

add_to_group(groups, h, k) ==
    IF \E j \in 1..Len(groups) : groups[j].height = h
    THEN [j \in 1..Len(groups) |->
            IF groups[j].height = h
            THEN [groups[j] EXCEPT !.positions = Append(@, k)]
            ELSE groups[j]]
    ELSE Append(groups, [height |-> h, positions |-> <<k>>])

\* texture.py:349-385, the row/column loops from cell k on, the generator in state s.
RECURSIVE grid_loop(_, _, _, _, _)
grid_loop(face, d, k, s, groups) ==
    IF k > Len(face) THEN [err |-> "", groups |-> groups, rng |-> s]
    ELSE IF ~hex_would_intersect(face, k) THEN grid_loop(face, d, k + 1, s, groups)
    ELSE LET random_height == random_uniform(d.hex_height_min, d.hex_height_max, s)
             q == discretize(d, random_height)
         IN IF q.err # ""
            THEN [err |-> q.err, groups |-> groups, rng |-> RngNext(s)]
            ELSE grid_loop(face, d, k + 1, RngNext(s),
                           add_to_group(groups, q.height, k))

\* texture.py:41
no_faces_selected_unchecked(fs) == FALSE

no_faces_selected(fs) == Len(fs) = 0

\* texture.py:387
no_height_groups_unchecked(groups) == FALSE

no_height_groups(groups) == groups = <<>>

TextureIdle ==
    /\ faces = <<>> /\ t_pc = "idle" /\ fi = 0
    /\ result = InputResult /\ outcome = "running"
    /\ height_groups = <<>> /\ gi = 1 /\ pi = 1 /\ g_result = None
    /\ t_unions = 0 /\ t_clips = 0
    /\ construct_failed = {} /\ union_failed = {} /\ union_raised = FALSE
    /\ workplane = InputWorkplane

\* texture.py:38-46
T_Call ==
    /\ t_pc = "call"
    /\ IF no_faces_selected(faces)
       THEN /\ outcome' = "ValueError"
            /\ t_pc' = "done"
            /\ UNCHANGED <<result, fi>>
       ELSE /\ result' = InputResult
            /\ fi' = 1
            /\ t_pc' = "face"
            /\ UNCHANGED outcome
    /\ UNCHANGED <<faces, height_groups, gi, pi, g_result, t_unions, t_clips,
                   construct_failed, union_failed, union_raised, workplane>>
    /\ UNCHANGED <<details, rng, heightVars, unionVars, runs, fnVars>>

\* texture.py:49-59 with 286-391: the next face, its grid, filter and heights
T_Generate ==
    /\ t_pc = "face"
    /\ fi <= Len(faces)
    /\ LET r == grid_loop(faces[fi], details, 1, rng, <<>>)
       IN /\ rng' = r.rng
          /\ IF r.err # ""
             THEN /\ outcome' = r.err
                  /\ t_pc' = "done"
                  /\ UNCHANGED <<fi, height_groups>>
             ELSE IF no_height_groups(r.groups)
             THEN /\ fi' = fi + 1
                  /\ UNCHANGED <<outcome, t_pc, height_groups>>
             ELSE /\ height_groups' = r.groups
                  /\ t_pc' = "build"
                  /\ UNCHANGED <<outcome, fi>>
    /\ gi' = 1 /\ pi' = 1 /\ g_result' = None
    /\ construct_failed' = {} /\ union_failed' = {}
    /\ UNCHANGED <<faces, result, t_unions, t_clips, union_raised, workplane>>
    /\ UNCHANGED <<details, heightVars, unionVars, runs, fnVars>>

\* texture.py:406-421, one hexagon of the build loop. how: what the kernel does.
T_BuildHex ==
    /\ t_pc = "build"
    /\ gi <= Len(height_groups)
    /\ LET group == height_groups[gi]
           k == group.positions[pi]
           hex_shape == hex_prism(faces[fi], fi, k, group.height)
       IN \E how \in {"ok", "construct_raises", "union_raises"} :
            \/ /\ how = "ok"
               /\ g_result' = [none |-> FALSE, prisms |-> g_result.prisms \cup {hex_shape}]
               /\ t_unions' = IF g_result.none THEN t_unions ELSE t_unions + 1
               /\ UNCHANGED <<construct_failed, union_failed, union_raised>>
            \/ /\ how = "construct_raises"
               /\ construct_failed' = construct_failed \cup {k}
               /\ UNCHANGED <<g_result, t_unions, union_failed, union_raised>>
            \/ /\ how = "union_raises"
               /\ ~g_result.none
               /\ union_failed' = union_failed \cup {k}
               /\ union_raised' = TRUE
               /\ UNCHANGED <<g_result, t_unions, construct_failed>>
    /\ IF pi < Len(height_groups[gi].positions)
       THEN pi' = pi + 1 /\ gi' = gi
       ELSE pi' = 1 /\ gi' = gi + 1
    /\ UNCHANGED <<faces, t_pc, fi, result, outcome, height_groups, t_clips, workplane>>
    /\ UNCHANGED <<details, rng, heightVars, unionVars, runs, fnVars>>

\* texture.py:423-424 and 58-60
T_GenReturn ==
    /\ t_pc = "build"
    /\ gi > Len(height_groups)
    /\ IF g_result.none
       THEN outcome' = "AssertionError" /\ t_pc' = "done"
       ELSE t_pc' = "clip" /\ UNCHANGED outcome
    /\ UNCHANGED <<faces, fi, result, height_groups, gi, pi, g_result, t_unions,
                   t_clips, construct_failed, union_failed, union_raised, workplane>>
    /\ UNCHANGED <<details, rng, heightVars, unionVars, runs, fnVars>>

\* texture.py:62-93
T_Clip ==
    /\ t_pc = "clip"
    /\ t_clips' = t_clips + 1
    /\ \E how \in {"ok", "intersect_raises", "union_raises"} :
        \/ /\ how = "ok"
           /\ LET clipped_texture == intersect(g_result.prisms, face_solid(details))
              IN result' = face_union(result, clipped_texture, fi)
           /\ workplane' = after_union_merge(result, workplane)
           /\ t_unions' = t_unions + 1
           /\ fi' = fi + 1
           /\ t_pc' = "face"
           /\ UNCHANGED <<outcome, union_raised>>
        \/ /\ how = "intersect_raises"
           /\ outcome' = "KernelError"
           /\ t_pc' = "done"
           /\ UNCHANGED <<result, t_unions, fi, union_raised, workplane>>
        \/ /\ how = "union_raises"
           /\ workplane' = after_union_merge(result, workplane)
           /\ union_raised' = TRUE
           /\ outcome' = "KernelError"
           /\ t_pc' = "done"
           /\ UNCHANGED <<result, t_unions, fi>>
    /\ UNCHANGED <<faces, height_groups, gi, pi, g_result, construct_failed, union_failed>>
    /\ UNCHANGED <<details, rng, heightVars, unionVars, runs, fnVars>>

\* texture.py:95
T_Return ==
    /\ t_pc = "face"
    /\ fi > Len(faces)
    /\ outcome' = "return"
    /\ t_pc' = "done"
    /\ UNCHANGED <<faces, fi, result, height_groups, gi, pi, g_result, t_unions,
                   t_clips, construct_failed, union_failed, union_raised, workplane>>
    /\ UNCHANGED <<details, rng, heightVars, unionVars, runs, fnVars>>

(***************************************************************************)
(* union_tiles_hierarchical (img_tools.py:231-281).                        *)
(* A workplane is [id, pts, src]: id is the object's identity (k for the   *)
(* caller's k-th tile, 0 for an object created during the call), pts the   *)
(* points of its solid (a tile is a box, never empty), src the input tiles *)
(* unioned into it, in order.                                              *)
(***************************************************************************)
Points == {1, 2}

Tile(k, S) == [id |-> k, pts |-> S, src |-> <<k>>]

TileLists ==
    UNION { { [k \in 1..n |-> Tile(k, f[k])] : f \in [1..n -> (SUBSET Points) \ {{}}] } :
            n \in 0..MaxTiles }

\* cq.Workplane("XY"): a new workplane holding no solid.
EmptyWorkplane == [id |-> 0, pts |-> {}, src |-> <<>>]

\* a.union(b): a new workplane holding the union of the two solids.
kernel_union(a, b) == [id |-> 0, pts |-> a.pts \cup b.pts, src |-> a.src \o b.src]

\* img_tools.py:264, current_tiles[i : i + batch_size] with 0-based i.
batch_slice_one_more(cur, i, bs) == SubSeq(cur, i + 1, Min(i + bs + 1, Len(cur)))

batch_slice(cur, i, bs) == SubSeq(cur, i + 1, Min(i + bs, Len(cur)))

\* img_tools.py:271-273: batch_result = batch[0]; for tile in batch[1:]: union.
RECURSIVE union_left_to_right(_, _)
union_left_to_right(acc, rest) ==
    IF rest = <<>> THEN acc
    ELSE union_left_to_right(kernel_union(acc, Head(rest)), Tail(rest))

\* img_tools.py:266-274
batch_result_skip(batch) ==
    IF Len(batch) = 1 THEN batch[1]
    ELSE union_left_to_right(batch[1], Tail(Tail(batch)))

batch_result(batch) ==
    IF Len(batch) = 1 THEN batch[1]
    ELSE union_left_to_right(batch[1], Tail(batch))

\* img_tools.py:266-274: union calls made for one batch.
batch_unions_single_too(batch) == Len(batch)

batch_unions(batch) == IF Len(batch) = 1 THEN 0 ELSE Len(batch) - 1

UnionIdle ==
    /\ tiles = <<>> /\ batch_size = 1 /\ current_tiles = <<>> /\ new_tiles = <<>>
    /\ u_i = 0 /\ u_pc = "idle" /\ u_ret = EmptyWorkplane /\ u_unions = 0

\* img_tools.py:242-247
returns_single_copy(ts) == kernel_union(ts[1], EmptyWorkplane)

returns_single(ts) == ts[1]

U_Call ==
    /\ u_pc = "call"
    /\ IF Len(tiles) = 0
       THEN /\ u_ret' = EmptyWorkplane
            /\ u_pc' = "done"
            /\ UNCHANGED current_tiles
       ELSE IF Len(tiles) = 1
       THEN /\ u_ret' = returns_single(tiles)
            /\ u_pc' = "done"
            /\ UNCHANGED current_tiles
       ELSE /\ current_tiles' = tiles
            /\ u_pc' = "while"
            /\ UNCHANGED u_ret
    /\ UNCHANGED <<tiles, batch_size, new_tiles, u_i, u_unions>>
    /\ UNCHANGED <<details, rng, heightVars, textureVars, runs, fnVars>>

\* img_tools.py:249-251 and the return at 281
U_While ==
    /\ u_pc = "while"
    /\ IF Len(current_tiles) > 1
       THEN /\ new_tiles' = <<>>
            /\ u_i' = 0
            /\ u_pc' = "batch"
            /\ UNCHANGED u_ret
       ELSE /\ u_ret' = current_tiles[1]
            /\ u_pc' = "done"
            /\ UNCHANGED <<new_tiles, u_i>>
    /\ UNCHANGED <<tiles, batch_size, current_tiles, u_unions>>
    /\ UNCHANGED <<details, rng, heightVars, textureVars, runs, fnVars>>

\* img_tools.py:263-276, one iteration of the batch loop
U_Batch ==
    /\ u_pc = "batch"
    /\ u_i < Len(current_tiles)
    /\ LET batch == batch_slice(current_tiles, u_i, batch_size)
       IN /\ new_tiles' = Append(new_tiles, batch_result(batch))
          /\ u_unions' = u_unions + batch_unions(batch)
    /\ u_i' = u_i + batch_size
    /\ UNCHANGED <<tiles, batch_size, current_tiles, u_pc, u_ret>>
    /\ UNCHANGED <<details, rng, heightVars, textureVars, runs, fnVars>>

\* img_tools.py:279
U_LevelEnd ==
    /\ u_pc = "batch"
    /\ u_i >= Len(current_tiles)
    /\ current_tiles' = new_tiles
    /\ u_pc' = "while"
    /\ UNCHANGED <<tiles, batch_size, new_tiles, u_i, u_ret, u_unions>>
    /\ UNCHANGED <<details, rng, heightVars, textureVars, runs, fnVars>>

NoDetails == [hex_height_min |-> 0, hex_height_max |-> 0, height_steps |-> 0]

InitUnion ==
    /\ tiles \in TileLists
    /\ batch_size \in 1..MaxBatch
    /\ current_tiles = <<>> /\ new_tiles = <<>> /\ u_i = 0
    /\ u_pc = "call" /\ u_ret = EmptyWorkplane /\ u_unions = 0
    /\ details = NoDetails /\ rng = 0 /\ HeightIdle /\ TextureIdle /\ runs = <<>> /\ FnIdle

NextUnion == U_Call \/ U_While \/ U_Batch \/ U_LevelEnd

SpecUnion == InitUnion /\ [][NextUnion]_vars

(***************************************************************************)
(* The height assigner on its own: every texture spec, every sample.       *)
(***************************************************************************)
InitHeight ==
    /\ details \in HoneycombTexture
    /\ rng \in RngStates
    /\ HeightIdle
    /\ UnionIdle
    /\ TextureIdle
    /\ runs = <<>> /\ FnIdle

NextHeight == AssignHeight

SpecHeight == InitHeight /\ [][NextHeight]_vars

(***************************************************************************)
(* One call of add_hex_texture_to_faces.                                   *)
(***************************************************************************)
InitTexture ==
    /\ details \in HoneycombTexture
    /\ rng \in RngStates
    /\ faces \in FaceSelections
    /\ t_pc = "call" /\ fi = 0
    /\ result = InputResult /\ outcome = "running"
    /\ height_groups = <<>> /\ gi = 1 /\ pi = 1 /\ g_result = None
    /\ t_unions = 0 /\ t_clips = 0
    /\ construct_failed = {} /\ union_failed = {} /\ union_raised = FALSE
    /\ workplane = InputWorkplane
    /\ HeightIdle
    /\ UnionIdle
    /\ runs = <<>> /\ FnIdle

NextTexture ==
    T_Call \/ T_Generate \/ T_BuildHex \/ T_GenReturn \/ T_Clip \/ T_Return

SpecTexture == InitTexture /\ [][NextTexture]_vars

(***************************************************************************)
(* Two runs of the texture generator over one face with one texture spec,  *)
(* while other code draws from the same global generator.                  *)
(***************************************************************************)
\* The (position, height) pairs of one run of texture.py:349-385.
PositionHeightPairs(r) ==
    [err |-> r.err,
     pairs |-> UNION { { <<r.groups[j].positions[n], r.groups[j].height>> :
                            n \in 1..Len(r.groups[j].positions) } :
                       j \in 1..Len(r.groups) }]

\* random.random() called anywhere else in the process.
S_Elsewhere ==
    /\ Len(runs) < 2
    /\ rng' = RngNext(rng)
    /\ UNCHANGED <<details, heightVars, unionVars, textureVars, runs, fnVars>>

\* texture.py:286-388 run once more over the same face and spec. Nothing
\* seeds the generator: the dataclass carries no seed and 363-366 draw from
\* whatever state the global generator is in.
S_Run ==
    /\ Len(runs) < 2
    /\ LET r == grid_loop(faces[1], details, 1, rng, <<>>)
       IN /\ rng' = r.rng
          /\ runs' = Append(runs, PositionHeightPairs(r))
    /\ UNCHANGED <<details, heightVars, unionVars, textureVars, fnVars>>

InitSeed ==
    /\ details \in HoneycombTexture
    /\ rng \in RngStates
    /\ \E face \in Faces :
        /\ faces = <<face>> /\ t_pc = "idle" /\ fi = 0
        /\ result = InputResult /\ outcome = "running"
        /\ height_groups = <<>> /\ gi = 1 /\ pi = 1 /\ g_result = None
        /\ t_unions = 0 /\ t_clips = 0
        /\ construct_failed = {} /\ union_failed = {} /\ union_raised = FALSE
    /\ workplane = InputWorkplane
    /\ HeightIdle
    /\ UnionIdle
    /\ runs = <<>> /\ FnIdle

NextSeed == S_Elsewhere \/ S_Run

SpecSeed == InitSeed /\ [][NextSeed]_vars

(***************************************************************************)
(* The hexagon filter (texture.py:156-275).                                *)
(* In-plane coordinates are integers on a lattice whose unit is            *)
(* hex_side_len/2 along u and hex_side_len*sqrt(3)/2 along v, so that a    *)
(* regular hexagon of circumradius hex_side_len has integer vertices.     *)
(* The change of units is affine and the tests below only compare          *)
(* coordinates along one axis, signs of cross products and ratios of       *)
(* them, so they answer as they do in the code's units (floating-point     *)
(* rounding aside; the tolerance 1e-10 on denom is far below one lattice   *)
(* unit of area and is the test denom = 0 here).                           *)
(***************************************************************************)

VAdd(a, b) == <<a[1] + b[1], a[2] + b[2], a[3] + b[3]>>
VSub(a, b) == <<a[1] - b[1], a[2] - b[2], a[3] - b[3]>>
VMul(a, k) == <<a[1] * k, a[2] * k, a[3] * k>>
Dot(a, b) == a[1] * b[1] + a[2] * b[2] + a[3] * b[3]

\* texture.py:242, x <= xinters with
\* xinters = (y - p1y) * (p2x - p1x) / (p2y - p1y) + p1x, without dividing
x_le_xinters(x, y, p1, p2) ==
    IF p2[2] > p1[2]
    THEN (x - p1[1]) * (p2[2] - p1[2]) <= (y - p1[2]) * (p2[1] - p1[1])
    ELSE (x - p1[1]) * (p2[2] - p1[2]) >= (y - p1[2]) * (p2[1] - p1[1])

\* texture.py:236-244: does the edge p1-p2 flip `inside` for the point (x, y)
edge_flips_closed(x, y, p1, p2) ==
    /\ y >= Min(p1[2], p2[2])
    /\ y <= Max(p1[2], p2[2])
    /\ x <= Max(p1[1], p2[1])
    /\ (p1[1] = p2[1] \/ p1[2] = p2[2] \/ x_le_xinters(x, y, p1, p2))

edge_flips(x, y, p1, p2) ==
    /\ y > Min(p1[2], p2[2])
    /\ y <= Max(p1[2], p2[2])
    /\ x <= Max(p1[1], p2[1])
    /\ (p1[1] = p2[1] \/ x_le_xinters(x, y, p1, p2))

\* texture.py:234-245, the loop from i on; p1 is polygon[i - 1]
RECURSIVE point_in_polygon_loop(_, _, _, _, _)
point_in_polygon_loop(x, y, polygon, i, inside) ==
    LET n == Len(polygon)
        p1 == polygon[((i - 1) % n) + 1]
        p2 == polygon[(i % n) + 1]
    IN IF i > n THEN inside
       ELSE point_in_polygon_loop(x, y, polygon, i + 1,
                IF edge_flips(x, y, p1, p2) THEN ~inside ELSE inside)

\* texture.py:226-247
_point_in_polygon(x, y, polygon) == point_in_polygon_loop(x, y, polygon, 1, FALSE)

\* texture.py:250-275
line_segments_intersect_open(p1, p2, p3, p4) ==
    LET denom == (p1[1] - p2[1]) * (p3[2] - p4[2]) - (p1[2] - p2[2]) * (p3[1] - p4[1])
        t_num == (p1[1] - p3[1]) * (p3[2] - p4[2]) - (p1[2] - p3[2]) * (p3[1] - p4[1])
        u_num == -((p1[1] - p2[1]) * (p1[2] - p3[2]) - (p1[2] - p2[2]) * (p1[1] - p3[1]))
        in01(num) == IF denom > 0 THEN 0 < num /\ num < denom
                                  ELSE denom < num /\ num < 0
    IN IF denom = 0 THEN FALSE
       ELSE in01(t_num) /\ in01(u_num)

_line_segments_intersect(p1, p2, p3, p4) ==
    LET x1 == p1[1]  y1 == p1[2]
        x2 == p2[1]  y2 == p2[2]
        x3 == p3[1]  y3 == p3[2]
        x4 == p4[1]  y4 == p4[2]
        denom == (x1 - x2) * (y3 - y4) - (y1 - y2) * (x3 - x4)
        t_num == (x1 - x3) * (y3 - y4) - (y1 - y3) * (x3 - x4)
        u_num == -((x1 - x2) * (y1 - y3) - (y1 - y2) * (x1 - x3))
        in01(num) == IF denom > 0 THEN 0 <= num /\ num <= denom
                                  ELSE denom <= num /\ num <= 0
    IN IF denom = 0 THEN FALSE
       ELSE in01(t_num) /\ in01(u_num)

\* texture.py:194-199: cos and sin of i*pi/3 times hex_radius, in lattice units
HexOffsets == << <<2, 0>>, <<1, 1>>, <<-1, 1>>, <<-2, 0>>, <<-1, -1>>, <<1, -1>> >>

\* texture.py:195-199, the loop from vertex i on
RECURSIVE hex_vertices_loop(_, _, _, _)
hex_vertices_loop(u_proj, v_proj, i, hex_vertices) ==
    IF i > 6 THEN hex_vertices
    ELSE hex_vertices_loop(u_proj, v_proj, i + 1,
            Append(hex_vertices,
                   <<u_proj + HexOffsets[i][1], v_proj + HexOffsets[i][2]>>))

hex_vertices_at(u_proj, v_proj) == hex_vertices_loop(u_proj, v_proj, 1, <<>>)

\* texture.py:180-187: the face's outer-wire vertices in the (u, v) frame
RECURSIVE face_2d_points_loop(_, _, _, _, _, _)
face_2d_points_loop(face_vertices, face_center, u_vec, v_vec, j, face_2d_points) ==
    IF j > Len(face_vertices) THEN face_2d_points
    ELSE LET vertex_relative == VSub(face_vertices[j], face_center)
         IN face_2d_points_loop(face_vertices, face_center, u_vec, v_vec, j + 1,
                Append(face_2d_points,
                       <<Dot(vertex_relative, u_vec), Dot(vertex_relative, v_vec)>>))

face_2d_points_of(face_vertices, face_center, u_vec, v_vec) ==
    face_2d_points_loop(face_vertices, face_center, u_vec, v_vec, 1, <<>>)

\* texture.py:202-204
any_hex_vertex_in_face(hex_vertices, face_2d_points) ==
    \E i \in 1..6 :
        _point_in_polygon(hex_vertices[i][1], hex_vertices[i][2], face_2d_points)

\* texture.py:207-209
any_face_vertex_in_hex(hex_vertices, face_2d_points) ==
    \E j \in 1..Len(face_2d_points) :
        _point_in_polygon(face_2d_points[j][1], face_2d_points[j][2], hex_vertices)

\* texture.py:212-221
any_edges_intersect_skipped(hex_vertices, face_2d_points) == FALSE

any_edges_intersect(hex_vertices, face_2d_points) ==
    LET n == Len(face_2d_points) IN
    \E i \in 1..6, j \in 1..n :
        _line_segments_intersect(hex_vertices[i], hex_vertices[(i % 6) + 1],
                                 face_2d_points[j], face_2d_points[(j % n) + 1])

\* texture.py:156-223
hex_would_intersect_face_edges_only(local_x, local_y, face_vertices, face_center, u_vec, v_vec) ==
    LET world_pos == VAdd(face_center,
                          VAdd(VMul(u_vec, local_x), VMul(v_vec, local_y)))
        relative_pos == VSub(world_pos, face_center)
        hex_vertices == hex_vertices_at(Dot(relative_pos, u_vec), Dot(relative_pos, v_vec))
        face_2d_points == face_2d_points_of(face_vertices, face_center, u_vec, v_vec)
    IN any_edges_intersect(hex_vertices, face_2d_points)

_hex_would_intersect_face(local_x, local_y, face_vertices, face_center, u_vec, v_vec) ==
    LET world_pos == VAdd(face_center,
                          VAdd(VMul(u_vec, local_x), VMul(v_vec, local_y)))
        relative_pos == VSub(world_pos, face_center)
        u_proj == Dot(relative_pos, u_vec)
        v_proj == Dot(relative_pos, v_vec)
        face_2d_points == face_2d_points_of(face_vertices, face_center, u_vec, v_vec)
        hex_vertices == hex_vertices_at(u_proj, v_proj)
    IN \/ any_hex_vertex_in_face(hex_vertices, face_2d_points)
       \/ any_face_vertex_in_hex(hex_vertices, face_2d_points)
       \/ any_edges_intersect(hex_vertices, face_2d_points)

(***************************************************************************)
(* What "inside", "crossing" and "apart" mean for lattice polygons, from   *)
(* signs of cross products alone (no ray, no division).                    *)
(***************************************************************************)
Orient(a, b, c) == (b[1] - a[1]) * (c[2] - a[2]) - (b[2] - a[2]) * (c[1] - a[1])

OnSegment(p, a, b) ==
    /\ Orient(a, b, p) = 0
    /\ Min(a[1], b[1]) <= p[1] /\ p[1] <= Max(a[1], b[1])
    /\ Min(a[2], b[2]) <= p[2] /\ p[2] <= Max(a[2], b[2])

\* the open segments a-b and c-d cross at one point interior to both
ProperlyCross(a, b, c, d) ==
    /\ Orient(a, b, c) * Orient(a, b, d) < 0
    /\ Orient(c, d, a) * Orient(c, d, b) < 0

\* the closed segments a-b and c-d share a point
SegmentsTouch(a, b, c, d) ==
    \/ ProperlyCross(a, b, c, d)
    \/ OnSegment(c, a, b) \/ OnSegment(d, a, b)
    \/ OnSegment(a, c, d) \/ OnSegment(b, c, d)

Next1(polygon, j) == polygon[(j % Len(polygon)) + 1]

OnBoundary(p, polygon) ==
    \E j \in 1..Len(polygon) : OnSegment(p, polygon[j], Next1(polygon, j))

\* how many times the polygon winds around p (p off the boundary)
RECURSIVE WindingFrom(_, _, _)
WindingFrom(p, polygon, j) ==
    IF j > Len(polygon) THEN 0
    ELSE LET a == polygon[j]
             b == Next1(polygon, j)
             w == IF a[2] <= p[2]
                  THEN IF b[2] > p[2] /\ Orient(a, b, p) > 0 THEN 1 ELSE 0
                  ELSE IF b[2] <= p[2] /\ Orient(a, b, p) < 0 THEN -1 ELSE 0
         IN w + WindingFrom(p, polygon, j + 1)

StrictlyInside(p, polygon) ==
    ~OnBoundary(p, polygon) /\ WindingFrom(p, polygon, 1) # 0

InClosed(p, polygon) == OnBoundary(p, polygon) \/ WindingFrom(p, polygon, 1) # 0

BoundariesTouch(P, Q) ==
    \E i \in 1..Len(P), j \in 1..Len(Q) :
        SegmentsTouch(P[i], Next1(P, i), Q[j], Next1(Q, j))

EdgesProperlyCross(P, Q) ==
    \E i \in 1..Len(P), j \in 1..Len(Q) :
        ProperlyCross(P[i], Next1(P, i), Q[j], Next1(Q, j))

\* H lies in the interior of P
FullyInside(H, P) ==
    /\ \A i \in 1..Len(H) : StrictlyInside(H[i], P)
    /\ ~BoundariesTouch(H, P)

\* H and P, boundaries included, have no point in common
FullyOutside(H, P) ==
    /\ \A i \in 1..Len(H) : ~InClosed(H[i], P)
    /\ \A j \in 1..Len(P) : ~InClosed(P[j], H)
    /\ ~BoundariesTouch(H, P)

\* no two edges of the polygon meet except neighbours at their common vertex
IsSimple(polygon) ==
    LET n == Len(polygon) IN
    /\ \A i, j \in 1..n : i # j => polygon[i] # polygon[j]
    /\ \A i \in 1..n : Orient(polygon[i], Next1(polygon, i),
                              Next1(polygon, (i % n) + 1)) # 0
    /\ \A i, j \in 1..n :
         (i < j /\ j # i + 1 /\ ~(i = 1 /\ j = n)) =>
            ~SegmentsTouch(polygon[i], Next1(polygon, i), polygon[j], Next1(polygon, j))

IsConvex(polygon) ==
    LET n == Len(polygon)
        turn(i) == Orient(polygon[i], Next1(polygon, i), Next1(polygon, (i % n) + 1))
    IN (\A i \in 1..n : turn(i) > 0) \/ (\A i \in 1..n : turn(i) < 0)

(***************************************************************************)
(* Calls of the filter: a face polygon and a candidate hexagon centre (or  *)
(* a query point).                                                         *)
(***************************************************************************)
\* corners a face polygon is drawn from: a field three hexagon half-widths
\* wide and two hexagon heights high
FacePoints == { <<3 * i, 2 * j>> : i \in 0..2, j \in 0..2 }

\* two larger faces that are not convex, listed in opposite directions
LShape == << <<0, 0>>, <<12, 0>>, <<12, 4>>, <<6, 4>>, <<6, 8>>, <<0, 8>> >>
UShape == << <<0, 9>>, <<4, 9>>, <<4, 4>>, <<10, 4>>, <<10, 9>>, <<14, 9>>,
             <<14, 0>>, <<0, 0>> >>

LexLess(a, b) == a[1] < b[1] \/ (a[1] = b[1] /\ a[2] < b[2])

\* the simple polygons over FacePoints, each listed once (from its least
\* corner, towards the lesser of that corner's two neighbours), and the two
\* larger faces
\* a thin face that can pass between the vertices of a hexagon
Sliver == << <<0, 0>>, <<1, 10>>, <<0, 10>> >>

FacePolygons ==
    { p \in UNION { [1..n -> FacePoints] : n \in 3..MaxVerts } :
        /\ \A j \in 2..Len(p) : LexLess(p[1], p[j])
        /\ LexLess(p[2], p[Len(p)])
        /\ IsSimple(p) }
        \cup {LShape, UShape, Sliver}

MinOf(S) == CHOOSE m \in S : \A x \in S : m <= x
MaxOf(S) == CHOOSE m \in S : \A x \in S : m >= x

\* candidate centres: the bounding extent of the face and Margin around it
Centres(p) ==
    LET xs == { p[j][1] : j \in 1..Len(p) }
        ys == { p[j][2] : j \in 1..Len(p) }
    IN ((MinOf(xs) - Margin)..(MaxOf(xs) + Margin))
          \X ((MinOf(ys) - Margin)..(MaxOf(ys) + Margin))

\* texture.py:98-153 for the normals X and Z without rotation, each with a
\* face centre
Frames ==
    { [face_center |-> <<1, -2, 3>>, u_vec |-> <<0, 0, 1>>, v_vec |-> <<0, -1, 0>>],
      [face_center |-> <<5, 0, -4>>, u_vec |-> <<0, 1, 0>>, v_vec |-> <<-1, 0, 0>>] }

\* the face's vertices in space, the polygon p being their (u, v) coordinates
face_vertices_of(p, fr) ==
    [j \in 1..Len(p) |->
        VAdd(fr.face_center, VAdd(VMul(fr.u_vec, p[j][1]), VMul(fr.v_vec, p[j][2])))]

\* texture.py:360-362, one call of the filter
F_HexFilter ==
    /\ f_pc = "call"
    /\ \E fr \in Frames :
         ret' = [fn |-> "_hex_would_intersect_face",
                 value |-> _hex_would_intersect_face(
                              args.x, args.y, face_vertices_of(args.face, fr),
                              fr.face_center, fr.u_vec, fr.v_vec)]
    /\ f_pc' = "done"
    /\ UNCHANGED <<args, details, rng, heightVars, unionVars, textureVars, runs>>

\* texture.py:203, one call of the point test
F_PointInPolygon ==
    /\ f_pc = "call"
    /\ ret' = [fn |-> "_point_in_polygon",
               value |-> _point_in_polygon(args.x, args.y, args.face)]
    /\ f_pc' = "done"
    /\ UNCHANGED <<args, details, rng, heightVars, unionVars, textureVars, runs>>

InitFilter ==
    /\ \E p \in FacePolygons : \E c \in Centres(p) :
         args = [face |-> p, x |-> c[1], y |-> c[2]]
    /\ ret = <<>> /\ f_pc = "call"
    /\ details = NoDetails /\ rng = 0 /\ HeightIdle /\ UnionIdle /\ TextureIdle
    /\ runs = <<>>

NextFilter == F_HexFilter \/ F_PointInPolygon

SpecFilter == InitFilter /\ [][NextFilter]_vars

(***************************************************************************)
(* _get_face_coordinate_system (texture.py:98-153).                        *)
(* A vector is [num, den2]: the integer vector num divided by the square   *)
(* root of den2, so normalising and the unit-length test are exact. A      *)
(* rotation is [cos, sin, hyp, degrees_zero]: the angle whose cosine and   *)
(* sine are cos/hyp and sin/hyp, degrees_zero telling rotation_degrees = 0 *)
(* from a full turn.                                                       *)
(***************************************************************************)
Cross(a, b) == <<a[2] * b[3] - a[3] * b[2],
                 a[3] * b[1] - a[1] * b[3],
                 a[1] * b[2] - a[2] * b[1]>>

Vector(x, y, z) == [num |-> <<x, y, z>>, den2 |-> 1]

\* cq.Vector.normalized
normalized(a) == [num |-> a.num, den2 |-> Dot(a.num, a.num)]

\* cq.Vector.cross
cross(a, b) == [num |-> Cross(a.num, b.num), den2 |-> a.den2 * b.den2]

\* cq.Vector.multiply by the scalar n/d
multiply(a, n, d) == [num |-> VMul(a.num, n), den2 |-> a.den2 * d * d]

\* cq.Vector.add; the two denominators differ by a whole factor k
add(a, b) ==
    IF a.den2 <= b.den2
    THEN LET k == CHOOSE k \in 1..b.den2 : k * k * a.den2 = b.den2
         IN [num |-> VAdd(VMul(a.num, k), b.num), den2 |-> b.den2]
    ELSE LET k == CHOOSE k \in 1..a.den2 : k * k * b.den2 = a.den2
         IN [num |-> VAdd(a.num, VMul(b.num, k)), den2 |-> a.den2]

\* texture.py:109-113
reference_candidates == <<Vector(1, 0, 0), Vector(0, 1, 0), Vector(0, 0, 1)>>

\* texture.py:122-126, cross_magnitude > 1e-6: both sides squared, and the
\* whole number on the left compared with the whole part of the right
magnitude_sufficient(cross_result) ==
    Dot(cross_result.num, cross_result.num) * 1000000 > cross_result.den2 \div 1000000

\* texture.py:117-128
reference_loop_z_first(normal, i) ==
    LET by_z == cross(normal, reference_candidates[3])
    IN IF magnitude_sufficient(by_z)
       THEN normalized(by_z)
       ELSE normalized(cross(normal, reference_candidates[1]))

\* texture.py:117-128, the loop from candidate i on; <<>> stands for None
RECURSIVE reference_loop(_, _)
reference_loop(normal, i) ==
    IF i > Len(reference_candidates) THEN <<>>
    ELSE LET cross_result == cross(normal, reference_candidates[i])
         IN IF magnitude_sufficient(cross_result)
            THEN normalized(cross_result)
            ELSE reference_loop(normal, i + 1)

\* texture.py:148
rotated_v_same_sign(u_vec, v_vec, rot) ==
    add(multiply(u_vec, rot.sin, rot.hyp), multiply(v_vec, rot.cos, rot.hyp))

rotated_v_of(u_vec, v_vec, rot) ==
    add(multiply(u_vec, -rot.sin, rot.hyp), multiply(v_vec, rot.cos, rot.hyp))

\* texture.py:147
rotated_u_swapped(u_vec, v_vec, rot) ==
    add(multiply(u_vec, rot.sin, rot.hyp), multiply(v_vec, rot.cos, rot.hyp))

rotated_u_of(u_vec, v_vec, rot) ==
    add(multiply(u_vec, rot.cos, rot.hyp), multiply(v_vec, rot.sin, rot.hyp))

\* texture.py:98-153
_get_face_coordinate_system(face_normal, rot) ==
    LET normal == normalized(face_normal)
        u_vec == reference_loop(normal, 1)
    IN IF u_vec = <<>>
       THEN [err |-> "ValueError", u_vec |-> <<>>, v_vec |-> <<>>]
       ELSE LET v_vec == normalized(cross(normal, u_vec))
            IN IF ~rot.degrees_zero
               THEN [err |-> "",
                     u_vec |-> normalized(rotated_u_of(u_vec, v_vec, rot)),
                     v_vec |-> normalized(rotated_v_of(u_vec, v_vec, rot))]
               ELSE [err |-> "", u_vec |-> u_vec, v_vec |-> v_vec]

\* face normals: the integer vectors of whole length with coordinates up
\* to MaxCoord, the axes among them
FaceNormals ==
    { Vector(n[1], n[2], n[3]) :
        n \in { m \in (-MaxCoord..MaxCoord) \X (-MaxCoord..MaxCoord) \X (-MaxCoord..MaxCoord) :
                  \E len \in 1..(2 * MaxCoord) : Dot(m, m) = len * len } }

\* rotation_degrees = an angle within one turn, whose cosine and sine are
\* c/h and s/h, plus `turns` full turns; texture.py:139, abs(degrees) > 1e-6,
\* fails for the angle 0 with no turn added only
Rotation(c, s, h, turns) ==
    [cos |-> c, sin |-> s, hyp |-> h, turns |-> turns,
     degrees_zero |-> (c = h /\ s = 0 /\ turns = 0)]

\* the angles 0, the quarter turns and the angles of the 3-4-5 and 5-12-13
\* triangles in every quadrant, each as it is, a turn back and a turn on
Rotations ==
    { Rotation(t[1], t[2], t[3], turns) :
        t \in { <<1, 0, 1>>, <<0, 1, 1>>, <<-1, 0, 1>>, <<0, -1, 1>>,
                <<3, 4, 5>>, <<-4, 3, 5>>, <<-3, -4, 5>>, <<4, -3, 5>>,
                <<12, 5, 13>>, <<5, -12, 13>> },
        turns \in {-1, 0, 1} }

\* texture.py:305-307, one call
F_Frame ==
    /\ f_pc = "call"
    /\ ret' = _get_face_coordinate_system(args.face_normal, args.rotation)
    /\ f_pc' = "done"
    /\ UNCHANGED <<args, details, rng, heightVars, unionVars, textureVars, runs>>

InitFrame ==
    /\ args \in [face_normal : FaceNormals, rotation : Rotations]
    /\ ret = <<>> /\ f_pc = "call"
    /\ details = NoDetails /\ rng = 0 /\ HeightIdle /\ UnionIdle /\ TextureIdle
    /\ runs = <<>>

NextFrame == F_Frame

SpecFrame == InitFrame /\ [][NextFrame]_vars

(***************************************************************************)
(* The candidate grid of _generate_hex_texture_for_face                    *)
(* (texture.py:313-357).                                                   *)
(* Lengths along u are whole numbers of halves of sqrt(3), lengths along v *)
(* whole numbers of halves of 1, so sqrt(3) and 0.5 and every halving      *)
(* below are exact. The face's extent [u_min, u_max] x [v_min, v_max] is   *)
(* measured from the face centre, which lies strictly within it.           *)
(***************************************************************************)
Sqrt3 == 2          \* math.sqrt(3), in halves of sqrt(3)
Half == 1           \* 0.5, in halves of 1

\* math.ceil(a / b) for a >= 0 and b > 0
ceil_div(a, b) == (a + b - 1) \div b

\* texture.py:321 and 323
x_spacing_of(d) == d.hex_side_len * Sqrt3 * d.spacing_coefficient

\* texture.py:322 and 324
y_spacing_of(d) == d.hex_side_len * Half * d.spacing_coefficient

\* texture.py:317 and 318, in halves
face_width_of(a) == 2 * (a.u_max - a.u_min)
face_height_of(a) == 2 * (a.v_max - a.v_min)

\* texture.py:327-329
cols_without_margin(a) == ceil_div(face_width_of(a), x_spacing_of(a))

cols_of(a) == ceil_div(face_width_of(a), x_spacing_of(a)) + 1

\* texture.py:330
rows_of(a) == ceil_div(face_height_of(a), y_spacing_of(a)) + 1

\* texture.py:346 and 347
half_width_of(a) == face_width_of(a) \div 2
half_height_of(a) == face_height_of(a) \div 2

\* texture.py:352 and 356-357
local_x_even_stagger(a, row, col) ==
    (col * x_spacing_of(a)) - half_width_of(a)
        + (IF row % 2 = 0 THEN x_spacing_of(a) \div 2 ELSE 0)

local_x_of(a, row, col) ==
    (col * x_spacing_of(a)) - half_width_of(a)
        + (IF row % 2 = 1 THEN x_spacing_of(a) \div 2 ELSE 0)

\* texture.py:353
local_y_of(a, row, col) == (row * y_spacing_of(a)) - half_height_of(a)

\* texture.py:349-357: the cells in the order the two loops visit them, all
\* columns of row 0, then of row 1, and so on
candidate_cells(a) ==
    [k \in 1..(rows_of(a) * cols_of(a)) |->
        LET row == (k - 1) \div cols_of(a)
            col == (k - 1) % cols_of(a)
        IN [row |-> row, col |-> col,
            local_x |-> local_x_of(a, row, col),
            local_y |-> local_y_of(a, row, col)]]

\* texture.py:349-357, one enumeration of the grid
F_Grid ==
    /\ f_pc = "call"
    /\ ret' = [cols |-> cols_of(args), rows |-> rows_of(args),
               cells |-> candidate_cells(args)]
    /\ f_pc' = "done"
    /\ UNCHANGED <<args, details, rng, heightVars, unionVars, textureVars, runs>>

InitGrid ==
    /\ args \in [u_min : (-MaxExtent)..(-1), u_max : 1..MaxExtent,
                 v_min : (-MaxExtent)..(-1), v_max : 1..MaxExtent,
                 hex_side_len : 1..MaxSide, spacing_coefficient : 1..MaxSide]
    /\ ret = <<>> /\ f_pc = "call"
    /\ details = NoDetails /\ rng = 0 /\ HeightIdle /\ UnionIdle /\ TextureIdle
    /\ runs = <<>>

NextGrid == F_Grid

SpecGrid == InitGrid /\ [][NextGrid]_vars

(***************************************************************************)
(* _line_segments_intersect on its own: every four lattice points.         *)
(***************************************************************************)
SegmentPoints == (0..MaxPt) \X (0..MaxPt)

\* texture.py:220, one call, and the call with the two segments exchanged
F_Segments ==
    /\ f_pc = "call"
    /\ ret' = [value |-> _line_segments_intersect(args.p1, args.p2, args.p3, args.p4),
               swapped |-> _line_segments_intersect(args.p3, args.p4, args.p1, args.p2)]
    /\ f_pc' = "done"
    /\ UNCHANGED <<args, details, rng, heightVars, unionVars, textureVars, runs>>

InitSegments ==
    /\ args \in [p1 : SegmentPoints, p2 : SegmentPoints,
                 p3 : SegmentPoints, p4 : SegmentPoints]
    /\ ret = <<>> /\ f_pc = "call"
    /\ details = NoDetails /\ rng = 0 /\ HeightIdle /\ UnionIdle /\ TextureIdle
    /\ runs = <<>>

NextSegments == F_Segments

SpecSegments == InitSegments /\ [][NextSegments]_vars

(***************************************************************************)
(* merge_adjacent_same_height_tiles (img_tools.py:81-196).                 *)
(* args is [rows, cols, pixel_values, tolerance]: pixel_values holds the   *)
(* luminance levels row by row, and the caller's tiles are one per pixel   *)
(* in that order (create_base_tiles, img_tools.py:49-76), tile k being     *)
(* Tile(k, Points).  height_groups, a dict kept in insertion order, is a   *)
(* sequence of [key, tile_list]; a tile_list entry is [tile, row, col].    *)
(***************************************************************************)
PixelLevels == 0..2

\* 0 stands for the default 0.01, below the distance of two levels
Tolerances == {0, 1}

GridShapes ==
    { s \in (1..MaxPixels) \X (1..MaxPixels) : s[1] * s[2] <= MaxPixels }

\* pixel_values[row, col], 0-based
pixel_at(a, row, col) == a.pixel_values[row * a.cols + col + 1]

within_tolerance(x, y, tolerance) ==
    (IF x >= y THEN x - y ELSE y - x) <= tolerance

\* img_tools.py:114-118: the index of the first group within tolerance, 0 if none
RECURSIVE find_group(_, _, _, _)
find_group(hg, height_val, tolerance, j) ==
    IF j > Len(hg) THEN 0
    ELSE IF within_tolerance(hg[j].key, height_val, tolerance) THEN j
    ELSE find_group(hg, height_val, tolerance, j + 1)

\* img_tools.py:108-124, the loop from the 0-based tile index i on
RECURSIVE group_by_height(_, _, _)
group_by_height(a, i, hg) ==
    IF i >= a.rows * a.cols THEN hg
    ELSE LET row == i \div a.cols
             col == i % a.cols
             height_val == pixel_at(a, row, col)
             entry == [tile |-> Tile(i + 1, Points), row |-> row, col |-> col]
             j == find_group(hg, height_val, a.tolerance, 1)
         IN IF j = 0
            THEN group_by_height(a, i + 1,
                     Append(hg, [key |-> height_val, tile_list |-> <<entry>>]))
            ELSE group_by_height(a, i + 1,
                     [hg EXCEPT ![j].tile_list = Append(@, entry)])

\* img_tools.py:158
neighbors_with_diagonals(r, c) ==
    << <<r - 1, c>>, <<r + 1, c>>, <<r, c - 1>>, <<r, c + 1>>, <<r + 1, c + 1>> >>

neighbors(r, c) == << <<r - 1, c>>, <<r + 1, c>>, <<r, c - 1>>, <<r, c + 1>> >>

\* img_tools.py:169-173: the index in tile_list of the tile at (nr, nc), 0 if none
RECURSIVE find_neighbor_tile(_, _, _, _)
find_neighbor_tile(tile_list, nr, nc, j) ==
    IF j > Len(tile_list) THEN 0
    ELSE IF tile_list[j].row = nr /\ tile_list[j].col = nc THEN j
    ELSE find_neighbor_tile(tile_list, nr, nc, j + 1)

\* img_tools.py:159-178: the neighbours of (r, c) from the j-th on; st is
\* [current_group, processed, to_check]
RECURSIVE check_neighbors(_, _, _, _, _, _)
check_neighbors(a, grp, st, r, c, j) ==
    LET ns == neighbors(r, c)
    IN IF j > Len(ns) THEN st
       ELSE LET nr == ns[j][1]
                nc == ns[j][2]
                k == find_neighbor_tile(grp.tile_list, nr, nc, 1)
            IN IF /\ 0 <= nr /\ nr < a.rows
                  /\ 0 <= nc /\ nc < a.cols
                  /\ <<nr, nc>> \notin st.processed
                  /\ within_tolerance(pixel_at(a, nr, nc), grp.key, a.tolerance)
                  /\ k # 0
               THEN check_neighbors(a, grp,
                        [current_group |-> Append(st.current_group, grp.tile_list[k]),
                         processed |-> st.processed \cup {<<nr, nc>>},
                         to_check |-> Append(st.to_check, <<nr, nc>>)],
                        r, c, j + 1)
               ELSE check_neighbors(a, grp, st, r, c, j + 1)

\* img_tools.py:154-178: while to_check: pop(0) and look at its neighbours
RECURSIVE flood(_, _, _)
flood(a, grp, st) ==
    IF st.to_check = <<>> THEN st
    ELSE LET rc == Head(st.to_check)
         IN flood(a, grp,
                  check_neighbors(a, grp, [st EXCEPT !.to_check = Tail(@)],
                                  rc[1], rc[2], 1))

\* img_tools.py:181-188
merge_group(current_group) ==
    IF Len(current_group) = 1 THEN current_group[1].tile
    ELSE union_left_to_right(current_group[1].tile,
                             [j \in 1..(Len(current_group) - 1) |->
                                  current_group[j + 1].tile])

\* img_tools.py:144-188, the loop over tile_list from entry j on
RECURSIVE adjacency_loop(_, _, _, _, _)
adjacency_loop(a, grp, j, processed, merged) ==
    IF j > Len(grp.tile_list) THEN merged
    ELSE LET e == grp.tile_list[j]
         IN IF <<e.row, e.col>> \in processed
            THEN adjacency_loop(a, grp, j + 1, processed, merged)
            ELSE LET st == flood(a, grp,
                               [current_group |-> <<e>>,
                                processed |-> processed \cup {<<e.row, e.col>>},
                                to_check |-> << <<e.row, e.col>> >>])
                 IN adjacency_loop(a, grp, j + 1, st.processed,
                                   Append(merged, merge_group(st.current_group)))

\* img_tools.py:100-124
M_GroupByHeight ==
    /\ f_pc = "call"
    /\ ret' = [height_groups |-> group_by_height(args, 0, <<>>),
               merged_groups |-> <<>>,
               next_group |-> 1]
    /\ f_pc' = "groups"
    /\ UNCHANGED <<args, details, rng, heightVars, unionVars, textureVars, runs>>

\* img_tools.py:134-191, one height group
M_MergeGroup ==
    /\ f_pc = "groups"
    /\ ret.next_group <= Len(ret.height_groups)
    /\ LET grp == ret.height_groups[ret.next_group]
       IN ret' = [ret EXCEPT
                    !.merged_groups =
                        IF Len(grp.tile_list) = 1
                        THEN Append(@, grp.tile_list[1].tile)
                        ELSE adjacency_loop(args, grp, 1, {}, @),
                    !.next_group = @ + 1]
    /\ UNCHANGED <<f_pc, args, details, rng, heightVars, unionVars, textureVars, runs>>

\* img_tools.py:193-196
M_Return ==
    /\ f_pc = "groups"
    /\ ret.next_group > Len(ret.height_groups)
    /\ f_pc' = "done"
    /\ UNCHANGED <<ret, args, details, rng, heightVars, unionVars, textureVars, runs>>

InitMerge ==
    /\ \E s \in GridShapes :
          args \in [rows : {s[1]}, cols : {s[2]},
                    pixel_values : [1..(s[1] * s[2]) -> PixelLevels],
                    tolerance : Tolerances]
    /\ ret = <<>> /\ f_pc = "call"
    /\ details = NoDetails /\ rng = 0 /\ HeightIdle /\ UnionIdle /\ TextureIdle
    /\ runs = <<>>

NextMerge == M_GroupByHeight \/ M_MergeGroup \/ M_Return

SpecMerge == InitMerge /\ [][NextMerge]_vars

(***************************************************************************)
(* The grid enumeration of _generate_hex_texture_for_face on its own       *)
(* (texture.py:338-388): args is [face, details, rng], the face's grid     *)
(* cells with the filter's answer for each, the texture spec and the       *)
(* state of the random generator at the call.                              *)
(***************************************************************************)
GridFaces == UNION { [1..c -> CellKinds] : c \in 1..MaxGridCells }

\* texture.py:338-388
F_HeightGroups ==
    /\ f_pc = "call"
    /\ ret' = grid_loop(args.face, args.details, 1, args.rng, <<>>)
    /\ f_pc' = "done"
    /\ UNCHANGED <<args, details, rng, heightVars, unionVars, textureVars, runs>>

InitGroups ==
    /\ args \in [face : GridFaces, details : HoneycombTexture, rng : RngStates]
    /\ ret = <<>> /\ f_pc = "call"
    /\ details = NoDetails /\ rng = 0 /\ HeightIdle /\ UnionIdle /\ TextureIdle
    /\ runs = <<>>

NextGroups == F_HeightGroups

SpecGroups == InitGroups /\ [][NextGroups]_vars

(***************************************************************************)
(* add_texture (texture/__init__.py:9-15), which Workplane.texture         *)
(* (workplane.py:50-54) calls with itself, the details and show_progress.  *)
(* args is [mro, show_progress]: mro lists the class of `details` and its  *)
(* bases.  The generator the call is forwarded to is                       *)
(* add_hex_texture_to_faces, whose steps are T_Call .. T_Return.           *)
(***************************************************************************)
DetailsClasses ==
    { <<"HoneycombTexture", "TextureDetails", "object">>,
      <<"FineHoneycomb", "HoneycombTexture", "TextureDetails", "object">>,
      <<"TextureDetails", "object">>,
      <<"KnurlTexture", "TextureDetails", "object">> }

isinstance_anything(mro, cls) == TRUE

isinstance(mro, cls) == \E j \in 1..Len(mro) : mro[j] = cls

\* texture/__init__.py:12-15 up to the call or the raise
D_AddTexture ==
    /\ f_pc = "call"
    /\ IF isinstance(args.mro, "HoneycombTexture")
       THEN /\ t_pc' = "call"
            /\ f_pc' = "forwarded"
            /\ UNCHANGED ret
       ELSE /\ ret' = [outcome |-> "ValueError", value |-> <<>>]
            /\ f_pc' = "done"
            /\ UNCHANGED t_pc
    /\ UNCHANGED <<faces, fi, result, outcome, height_groups, gi, pi, g_result,
                   t_unions, t_clips, construct_failed, union_failed, union_raised,
                   workplane>>
    /\ UNCHANGED <<args, details, rng, heightVars, unionVars, runs>>

\* texture/__init__.py:13, the generator's return value or exception passed on
D_Return ==
    /\ f_pc = "forwarded"
    /\ t_pc = "done"
    /\ ret' = [outcome |-> outcome,
               value |-> IF outcome = "return" THEN result ELSE <<>>]
    /\ f_pc' = "done"
    /\ UNCHANGED <<args, details, rng, heightVars, unionVars, textureVars, runs>>

InitDispatch ==
    /\ args \in [mro : DetailsClasses, show_progress : BOOLEAN]
    /\ IF isinstance(args.mro, "HoneycombTexture")
       THEN details \in HoneycombTexture
       ELSE details = NoDetails
    /\ rng = 0
    /\ faces \in FaceSelections
    /\ t_pc = "idle" /\ fi = 0
    /\ result = InputResult /\ outcome = "running"
    /\ height_groups = <<>> /\ gi = 1 /\ pi = 1 /\ g_result = None
    /\ t_unions = 0 /\ t_clips = 0
    /\ construct_failed = {} /\ union_failed = {} /\ union_raised = FALSE
    /\ workplane = InputWorkplane
    /\ ret = <<>> /\ f_pc = "call"
    /\ HeightIdle /\ UnionIdle /\ runs = <<>>

NextDispatch == D_AddTexture \/ NextTexture \/ D_Return

SpecDispatch == InitDispatch /\ [][NextDispatch]_vars

(***************************************************************************)
(* Workplane.cut / intersect / union (workplane.py:136-167).  args is      *)
(* [op, self_allow_clean, operand, clean]: the receiver's flag before the  *)
(* call, the operand (a dtools Workplane with its own flag, or a plain     *)
(* kernel object, which has none) and the clean argument requested.        *)
(***************************************************************************)
Operations == {"cut", "intersect", "union"}

Operands ==
    { [kind |-> "dtools.Workplane", allow_clean |-> b] : b \in BOOLEAN } \cup
    { [kind |-> k] : k \in {"cq.Workplane", "cq.Solid", "cq.Compound"} }

\* workplane.py:169-177: the receiver's flag after __merge_allow_clean(other)
receiver_after_merge(self_allow_clean, other) ==
    IF other.kind # "dtools.Workplane"
    THEN self_allow_clean
    ELSE merge_allow_clean(self_allow_clean, other.allow_clean)

\* workplane.py:143-146, 154-156, 165-167: merge, then clean = clean and
\* self.allow_clean, then the kernel call with that clean
W_Operation ==
    /\ f_pc = "call"
    /\ LET merged == receiver_after_merge(args.self_allow_clean, args.operand)
       IN ret' = [self_allow_clean |-> merged,
                  operand |-> args.operand,
                  clean |-> args.clean /\ merged]
    /\ f_pc' = "done"
    /\ UNCHANGED <<args, details, rng, heightVars, unionVars, textureVars, runs>>

InitClean ==
    /\ args \in [op : Operations, self_allow_clean : BOOLEAN,
                 operand : Operands, clean : BOOLEAN]
    /\ ret = <<>> /\ f_pc = "call"
    /\ details = NoDetails /\ rng = 0 /\ HeightIdle /\ UnionIdle /\ TextureIdle
    /\ runs = <<>>

NextClean == W_Operation

SpecClean == InitClean /\ [][NextClean]_vars

(***************************************************************************)
(* Properties of union_tiles_hierarchical.                                 *)
(***************************************************************************)
UnionOfAll(ts) == UNION { ts[k].pts : k \in 1..Len(ts) }

NaiveSequentialUnion(ts) ==
    [id |-> 0, pts |-> UnionOfAll(ts), src |-> [k \in 1..Len(ts) |-> k]]

Occurrences(seq, x) == Cardinality({ j \in 1..Len(seq) : seq[j] = x })

\* C5: for N >= 1 tiles and batch_size >= 2 the returned solid is the union
\* of all N input tiles, the solid a naive left-to-right sequential union
\* gives, and every input tile has been unioned into it exactly once.
C5_HierarchicalEqualsNaive ==
    (u_pc = "done" /\ Len(tiles) >= 1 /\ batch_size >= 2) =>
        /\ u_ret.pts = NaiveSequentialUnion(tiles).pts
        /\ \A k \in 1..Len(tiles) : Occurrences(u_ret.src, k) = 1
        /\ Len(u_ret.src) = Len(tiles)

C5_Witness ==
    /\ u_pc = "done" /\ Len(tiles) = MaxTiles /\ batch_size = 2
    /\ u_ret.pts = Points /\ tiles[MaxTiles].pts = Points
    /\ \A k \in 1..(MaxTiles - 1) : tiles[k].pts # Points

\* C6: an empty tile list returns an empty workplane and a one-element list
\* returns that very tile object, in both cases without any union call.
C6_EmptyAndSingle ==
    /\ (u_pc = "done" /\ Len(tiles) = 0) => (u_ret = EmptyWorkplane /\ u_unions = 0)
    /\ (u_pc = "done" /\ Len(tiles) = 1) => (u_ret = tiles[1] /\ u_ret.id = 1 /\ u_unions = 0)
    /\ Len(tiles) <= 1 => u_unions = 0

C6_Witness ==
    u_pc = "done" /\ Len(tiles) = 1 /\ u_ret.id = 1 /\ u_ret.pts = Points

\* C7 (as claimed): for every batch_size >= 1 each level of the loop leaves
\* strictly fewer tiles than it started with, so the loop ends.
C7_LevelShrinks ==
    [][(u_pc = "batch" /\ u_pc' = "while") =>
            Len(current_tiles') < Len(current_tiles)]_vars

(***************************************************************************)
(* Properties of the height assigner.                                      *)
(***************************************************************************)
\* C8 (as claimed): with height_steps = N > 1 and hmin <= hmax, hmin = hmax
\* included, the assigner completes without error and the height is
\* hmin + k*(hmax-hmin)/N with k = floor((sample-hmin)/((hmax-hmin)/N))
\* clamped to N-1.
C8_QuantizedOnGrid ==
    (h_pc = "done" /\ details.height_steps > 1
        /\ details.hex_height_min <= details.hex_height_max) =>
        /\ h_out.err = ""
        /\ LET N == details.height_steps
               width == (details.hex_height_max - details.hex_height_min) \div N
           IN \E k \in 0..(N - 1) :
                /\ h_out.height = details.hex_height_min + k * width
                /\ k = Min((h_sample - details.hex_height_min) \div width, N - 1)

\* C9: with height_steps <= 1 the assigned height is exactly the raw sample
\* and no division by the step width is made.
C9_NoQuantization ==
    (h_pc = "done" /\ details.height_steps <= 1) =>
        (h_out.err = "" /\ h_out.height = h_sample /\ h_out.divs = 0)

C9_Witness ==
    /\ h_pc = "done" /\ details.height_steps = 1
    /\ details.hex_height_min < h_sample /\ h_sample < details.hex_height_max
    /\ h_out.height = h_sample

(***************************************************************************)
(* Properties of the texture call.                                         *)
(***************************************************************************)
\* C1: with no face selected the call raises ValueError before any texture
\* is generated, any clipping volume is built or any union is made, and it
\* never returns.
C1_NoFacesRaises ==
    Len(faces) = 0 =>
        /\ t_unions = 0 /\ t_clips = 0 /\ g_result = None /\ height_groups = <<>>
        /\ outcome \in {"running", "ValueError"}
        /\ t_pc = "done" => outcome = "ValueError"
        /\ t_pc \in {"call", "done"}

C1_Witness == Len(faces) = 0 /\ t_pc = "done" /\ outcome = "ValueError"

\* C2 (as claimed): whichever retained hexagons fail to be constructed, the
\* generator returns normally and its texture holds every other retained
\* hexagon of the face (no union having failed).
C2_ConstructFailuresSkipped ==
    ((t_pc = "clip" \/ outcome = "AssertionError") /\ union_failed = {}) =>
        /\ t_pc = "clip"
        /\ outcome = "running"
        /\ { p.cell : p \in g_result.prisms } = Retained(faces[fi]) \ construct_failed

\* C3: a face that retains no hexagon raises nothing, adds no geometry (no
\* clipping volume, no union) and the call goes on with the next face.
C3_EmptyFaceSkipped ==
    [][(t_pc = "face" /\ fi <= Len(faces) /\ Retained(faces[fi]) = {}) =>
        /\ t_pc' = "face"
        /\ fi' = fi + 1
        /\ outcome' = "running"
        /\ result' = result
        /\ t_unions' = t_unions
        /\ t_clips' = t_clips]_vars

C3_Witness ==
    /\ Len(faces) >= 2 /\ Retained(faces[1]) = {}
    /\ fi = 2 /\ t_pc = "clip" /\ outcome = "running"

\* C4 (as claimed): a kernel union that raises anywhere in the texture path
\* is not caught: the call ends with that exception.
C4_UnionFailurePropagates ==
    union_raised => (t_pc = "done" /\ outcome = "KernelError")

\* C10 (as claimed): two runs of the generator over the same face and spec
\* give the same set of (position, height) pairs, whatever was drawn from
\* the generator elsewhere before each run.
C10_RunsIdentical == Len(runs) = 2 => runs[1] = runs[2]

\* The faces before face n that retain at least one hexagon, in face order.
ContributingBefore(n) ==
    SelectSeq([f \in 1..Min(n - 1, Len(faces)) |-> f],
              LAMBDA f : Retained(faces[f]) # {})

SeqRange(q) == { q[j] : j \in 1..Len(q) }

\* C13: the running result starts as the input shape and only grows by
\* union, one union per face that retained a hexagon, in face order: at any
\* time, and so when the call returns, it contains the whole input shape
\* and clipped texture of exactly the contributing faces processed so far.
C13_ResultGrowsByUnion ==
    /\ result.base
    /\ result.unioned = ContributingBefore(fi)
    /\ { p.face : p \in result.prisms } = SeqRange(result.unioned)
    /\ outcome = "return" =>
         \A f \in 1..Len(faces) :
            Retained(faces[f]) # {} => \E p \in result.prisms : p.face = f

C13_Witness ==
    /\ outcome = "return" /\ Len(faces) = 2
    /\ result.unioned = <<1, 2>>
    /\ \E p, q \in result.prisms : p.face = 1 /\ q.face = 2

\* C14: whatever was unioned into the result has its footprint inside the
\* boundary of the face it was built on; the part of a retained hexagon
\* that sticks out past the boundary is removed by the intersection with
\* the clipping volume before the union.
C14_FootprintWithinFace ==
    \A p \in result.prisms : p.parts \subseteq {"in"}

C14_Witness ==
    /\ outcome = "return"
    /\ \E p \in result.prisms :
         /\ faces[p.face][p.cell] = "straddles"
         /\ p.parts = {"in"}

Tallest(prisms) == CHOOSE h \in { p.height : p \in prisms } :
                      \A p \in prisms : p.height <= h

\* C15 (as claimed): with height_steps = 1 on a face that retains a hexagon
\* the returned result has texture and its tallest protrusion is exactly
\* hex_height_max high.
C15_TallestIsMax ==
    (outcome = "return" /\ details.height_steps = 1
        /\ \E f \in 1..Len(faces) : Retained(faces[f]) # {}) =>
        /\ result.prisms # {}
        /\ Tallest(result.prisms) = details.hex_height_max

\* C15 (amended): with height_steps = 1 on a face that retains a hexagon
\* the returned result holds the input shape and at least one protrusion,
\* and every protrusion is as high as a raw sample of
\* uniform(hex_height_min, hex_height_max): between the two bounds, the
\* tallest at most hex_height_max.
C15_HeightsAreRawSamples ==
    (outcome = "return" /\ details.height_steps = 1
        /\ \E f \in 1..Len(faces) : Retained(faces[f]) # {}) =>
        /\ result.base
        /\ result.prisms # {}
        /\ \A p \in result.prisms :
             /\ details.hex_height_min <= p.height
             /\ p.height <= details.hex_height_max
             /\ \E s \in RngStates :
                  p.height = random_uniform(details.hex_height_min,
                                            details.hex_height_max, s)
        /\ Tallest(result.prisms) <= details.hex_height_max

C15_Witness ==
    /\ outcome = "return" /\ details.height_steps = 1
    /\ Cardinality(result.prisms) >= 2
    /\ Tallest(result.prisms) < details.hex_height_max
    /\ details.hex_height_min < Tallest(result.prisms)

\* C16 (as claimed): the call leaves the caller's input workplane object,
\* its allow_clean flag included, as it was.
C16_InputWorkplaneUnchanged == workplane = InputWorkplane

(***************************************************************************)
(* Properties of the hexagon filter.                                       *)
(***************************************************************************)
HexDone == f_pc = "done" /\ ret.fn = "_hex_would_intersect_face"

TheHexagon == hex_vertices_at(args.x, args.y)

\* C11: a hexagon lying in the interior of the face polygon is retained and
\* a hexagon that has no point in common with the face polygon is rejected,
\* whether the polygon is convex or not.
C11_InsideRetainedOutsideRejected ==
    HexDone =>
        /\ FullyInside(TheHexagon, args.face) => ret.value
        /\ FullyOutside(TheHexagon, args.face) => ~ret.value

C11_Witness ==
    /\ HexDone /\ ~IsConvex(args.face)
    /\ FullyInside(TheHexagon, args.face)
    /\ ret.value

\* C19: when no hexagon vertex is inside the face polygon and no face vertex
\* is inside the hexagon but a hexagon edge crosses a face edge, the hexagon
\* is retained.
NoVertexWithin(P, Q) == \A i \in 1..Len(P) : ~StrictlyInside(P[i], Q)

VerticesApart(P, Q) == \A i \in 1..Len(P) : ~InClosed(P[i], Q)

C19_EdgeCrossingRetained ==
    (/\ HexDone
     /\ NoVertexWithin(TheHexagon, args.face)
     /\ NoVertexWithin(args.face, TheHexagon)
     /\ EdgesProperlyCross(TheHexagon, args.face)) => ret.value

C19_Witness ==
    /\ HexDone
    /\ ~any_hex_vertex_in_face(TheHexagon, args.face)
    /\ ~any_face_vertex_in_hex(TheHexagon, args.face)
    /\ VerticesApart(TheHexagon, args.face)
    /\ VerticesApart(args.face, TheHexagon)
    /\ EdgesProperlyCross(TheHexagon, args.face)
    /\ ret.value

PointDone == f_pc = "done" /\ ret.fn = "_point_in_polygon"

\* C20: for a simple polygon, convex or not, with or without horizontal
\* edges, and a query point off its boundary, _point_in_polygon answers
\* true exactly when the point is inside, also when the point is level with
\* polygon vertices.
C20_PointInPolygonExact ==
    (PointDone /\ ~OnBoundary(<<args.x, args.y>>, args.face)) =>
        (ret.value <=> StrictlyInside(<<args.x, args.y>>, args.face))

C20_Witness ==
    /\ PointDone /\ ~IsConvex(args.face)
    /\ ~OnBoundary(<<args.x, args.y>>, args.face)
    /\ \E j \in 1..Len(args.face) : args.face[j][2] = args.y /\ args.face[j][1] > args.x
    /\ \E j \in 1..Len(args.face) : args.face[j][2] = Next1(args.face, j)[2]
    /\ ret.value

(***************************************************************************)
(* Properties of the face coordinate frame builder.                        *)
(***************************************************************************)
IsUnit(a) == a.den2 > 0 /\ Dot(a.num, a.num) = a.den2

Orthogonal(a, b) == Dot(a.num, b.num) = 0

\* C12: for every face normal, the axes included, and every rotation, the
\* builder returns two vectors of length one that are orthogonal to each
\* other and to the normal.
C12_OrthonormalFrame ==
    f_pc = "done" =>
        /\ ret.err = ""
        /\ IsUnit(ret.u_vec) /\ IsUnit(ret.v_vec)
        /\ Orthogonal(ret.u_vec, ret.v_vec)
        /\ Orthogonal(ret.u_vec, args.face_normal)
        /\ Orthogonal(ret.v_vec, args.face_normal)

C12_Witness ==
    /\ f_pc = "done" /\ ret.err = ""
    /\ args.face_normal = Vector(1, 0, 0)
    /\ args.rotation.cos = 3 /\ args.rotation.sin = 4
    /\ ret.u_vec.num # <<0, 0, 1>> /\ IsUnit(ret.u_vec)

(***************************************************************************)
(* Properties of the candidate grid.                                       *)
(***************************************************************************)
\* the least whole number of steps of length b that reach a
IsCeil(c, a, b) == c * b >= a /\ (c - 1) * b < a

\* C18: the grid has rows*cols cells, cols = ceil(face_width/x_spacing)+1
\* and rows = ceil(face_height/y_spacing)+1 with x_spacing =
\* side_len*sqrt(3)*spacing_coefficient and y_spacing =
\* side_len*0.5*spacing_coefficient; cell (row, col) lies at
\* local_y = row*y_spacing - face_height/2 and
\* local_x = col*x_spacing - face_width/2, plus x_spacing/2 exactly when
\* row is odd.
C18_GridLayout ==
    f_pc = "done" =>
        LET sc == args.hex_side_len * args.spacing_coefficient
            x_spacing == 2 * sc
            y_spacing == sc
            width == args.u_max - args.u_min
            height == args.v_max - args.v_min
        IN /\ IsCeil(ret.cols - 1, 2 * width, x_spacing)
           /\ IsCeil(ret.rows - 1, 2 * height, y_spacing)
           /\ Len(ret.cells) = ret.rows * ret.cols
           /\ \A row \in 0..(ret.rows - 1), col \in 0..(ret.cols - 1) :
                LET cell == ret.cells[row * ret.cols + col + 1]
                IN /\ cell.row = row /\ cell.col = col
                   /\ cell.local_y = row * y_spacing - height
                   /\ cell.local_x = col * x_spacing - width
                                        + (IF row % 2 = 1 THEN sc ELSE 0)

C18_Witness ==
    /\ f_pc = "done" /\ ret.rows >= 3 /\ ret.cols >= 3
    /\ args.spacing_coefficient > 1
    /\ 2 * (args.u_max - args.u_min) % x_spacing_of(args) # 0
    /\ args.u_max # -args.u_min

LocalXs == { ret.cells[k].local_x : k \in 1..Len(ret.cells) }
LocalYs == { ret.cells[k].local_y : k \in 1..Len(ret.cells) }

\* C17 (as claimed): the candidate centres, as offsets from the face
\* centre, span at least [u_min, u_max] in u and [v_min, v_max] in v.
C17_GridCoversExtent ==
    f_pc = "done" =>
        /\ MinOf(LocalXs) <= 2 * args.u_min /\ MaxOf(LocalXs) >= 2 * args.u_max
        /\ MinOf(LocalYs) <= 2 * args.v_min /\ MaxOf(LocalYs) >= 2 * args.v_max

(***************************************************************************)
(* Properties of _line_segments_intersect.                                 *)
(***************************************************************************)
\* the directions of a-b and c-d are parallel (or one of them is a point)
Parallel(a, b, c, d) ==
    (b[1] - a[1]) * (d[2] - c[2]) - (b[2] - a[2]) * (d[1] - c[1]) = 0

\* C21: the answer is true exactly when the two supporting lines are not
\* parallel and their common point lies on both segments, end points
\* included; parallel and collinear segments are never reported, and
\* exchanging the two segments gives the same answer.
C21_SegmentsIntersectExact ==
    f_pc = "done" =>
        /\ ret.value <=> (/\ ~Parallel(args.p1, args.p2, args.p3, args.p4)
                          /\ SegmentsTouch(args.p1, args.p2, args.p3, args.p4))
        /\ Parallel(args.p1, args.p2, args.p3, args.p4) => ~ret.value
        /\ ret.swapped = ret.value

C21_Witness ==
    /\ f_pc = "done" /\ ret.value /\ ret.swapped
    /\ args.p3 = args.p2 /\ args.p1 # args.p2 /\ args.p4 # args.p3
    /\ ~ProperlyCross(args.p1, args.p2, args.p3, args.p4)

\* the unit vector along a x b, for integer vectors a and b
UnitCross(a, b) == [num |-> Cross(a, b), den2 |-> Dot(Cross(a, b), Cross(a, b))]

ParallelToX(n) == n[2] = 0 /\ n[3] = 0

\* C22: the reference axes are tried in the order X, Y, Z and the first one
\* not parallel to the normal is taken: X unless the normal is parallel to
\* X, then Y; Z is never needed and the internal error is never raised.
C22_ReferenceAxisChoice ==
    f_pc = "done" =>
        /\ ret.err = ""
        /\ args.rotation.degrees_zero =>
             ret.u_vec = IF ParallelToX(args.face_normal.num)
                         THEN UnitCross(args.face_normal.num, <<0, 1, 0>>)
                         ELSE UnitCross(args.face_normal.num, <<1, 0, 0>>)

C22_Witness ==
    /\ f_pc = "done" /\ ret.err = "" /\ args.rotation.degrees_zero
    /\ ParallelToX(args.face_normal.num) /\ args.face_normal.num[1] < 0
    /\ ret.u_vec = UnitCross(args.face_normal.num, <<0, 1, 0>>)
    /\ IsUnit(ret.u_vec)

\* the same vector, whatever the common factor of num and the root of den2
SameVector(a, b) ==
    \A i \in 1..3 :
        /\ a.num[i] * a.num[i] * b.den2 = b.num[i] * b.num[i] * a.den2
        /\ (a.num[i] > 0) = (b.num[i] > 0)
        /\ (a.num[i] < 0) = (b.num[i] < 0)

SameFrame(f, g) ==
    f.err = g.err /\ SameVector(f.u_vec, g.u_vec) /\ SameVector(f.v_vec, g.v_vec)

\* what the builder returns before any rotation (texture.py:105-136)
Unrotated == _get_face_coordinate_system(args.face_normal, Rotation(1, 0, 1, 0))

\* the rotation one full turn further on
TurnOn(rot) == Rotation(rot.cos, rot.sin, rot.hyp, rot.turns + 1)

\* C23: with rotation_degrees = 0 the unrotated u, v are returned as they
\* are; a rotation by 360 degrees gives u, v back; and rotating by r and by
\* r + 360 gives the same frame.
C23_RotationPeriodic ==
    f_pc = "done" =>
        /\ args.rotation.degrees_zero =>
             /\ ret.u_vec = reference_loop(normalized(args.face_normal), 1)
             /\ ret.v_vec = normalized(cross(normalized(args.face_normal), ret.u_vec))
        /\ (args.rotation.cos = args.rotation.hyp /\ args.rotation.sin = 0) =>
             SameFrame(ret, Unrotated)
        /\ SameFrame(ret, _get_face_coordinate_system(args.face_normal,
                                                      TurnOn(args.rotation)))

C23_Witness ==
    /\ f_pc = "done" /\ ret.err = ""
    /\ args.rotation = Rotation(1, 0, 1, 1)
    /\ ret.u_vec # Unrotated.u_vec
    /\ SameFrame(ret, Unrotated)

\* the input tiles unioned into the solids ts[a..b], in order
RECURSIVE SourcesOf(_, _, _)
SourcesOf(ts, a, b) ==
    IF a > b THEN <<>> ELSE ts[a].src \o SourcesOf(ts, a + 1, b)

\* the solids of the current list that the batch starting at u_i takes
BatchEnd == Min(u_i + batch_size, Len(current_tiles))

\* C24: with batch_size = b >= 2 every batch at every level is the
\* contiguous slice of at most b solids of the current list that starts
\* where the previous batch ended, it is unioned left to right with one
\* union call less than it has solids (so at most b - 1), and a batch of one
\* solid is carried to the next level as it is, without a union call.
C24_BatchesBounded ==
    [][(batch_size >= 2 /\ new_tiles' # new_tiles /\ new_tiles' # <<>>) =>
          LET n == BatchEnd - u_i
              made == new_tiles'[Len(new_tiles')]
          IN /\ u_i = batch_size * Len(new_tiles)
             /\ n >= 1 /\ n <= batch_size
             /\ new_tiles' = Append(new_tiles, made)
             /\ made.src = SourcesOf(current_tiles, u_i + 1, BatchEnd)
             /\ u_unions' - u_unions = n - 1
             /\ u_unions' - u_unions <= batch_size - 1
             /\ u_i' = u_i + batch_size
             /\ n = 1 => (made = current_tiles[u_i + 1] /\ u_unions' = u_unions)
             /\ n > 1 => made.id = 0]_vars

C24_Witness ==
    /\ u_pc = "batch" /\ batch_size = 2 /\ Len(tiles) = MaxTiles
    /\ Len(current_tiles) = 3 /\ Len(new_tiles) = 2 /\ u_i = 4
    /\ new_tiles[1].src = <<1, 2, 3, 4>>
    /\ new_tiles[2] = tiles[MaxTiles]
    /\ u_unions = 3

\* C30: for N >= 1 tiles and batch_size >= 2 the call makes exactly N - 1
\* union calls over all levels, as many as a sequential chain, and the
\* caller's list is never modified: it holds the same tiles at every step.
C30_UnionCountAndInputKept ==
    /\ [](/\ (u_pc = "done" /\ Len(tiles) >= 1 /\ batch_size >= 2) =>
                u_unions = Len(tiles) - 1
          /\ (Len(tiles) >= 1 /\ batch_size >= 2) => u_unions <= Len(tiles) - 1
          /\ \A k \in 1..Len(tiles) : tiles[k].id = k /\ tiles[k].src = <<k>>)
    /\ [][tiles' = tiles]_vars

C30_Witness ==
    /\ u_pc = "done" /\ Len(tiles) = MaxTiles /\ batch_size = 2
    /\ u_unions = MaxTiles - 1 /\ u_ret.id = 0
    /\ tiles[1].pts # tiles[2].pts

MergeDone == f_pc = "done" /\ "merged_groups" \in DOMAIN ret

\* the input tiles (by position in the caller's list) a returned solid is made of
MergedTiles(g) == SeqRange(ret.merged_groups[g].src)

\* the pixel a tile stands on
PixelOf(k) == <<(k - 1) \div args.cols, (k - 1) % args.cols>>

Adjacent4(p, q) ==
    \/ p[1] = q[1] /\ (p[2] - q[2] = 1 \/ q[2] - p[2] = 1)
    \/ p[2] = q[2] /\ (p[1] - q[1] = 1 \/ q[1] - p[1] = 1)

\* the pixels of S reached from R by steps between 4-neighbours within S
RECURSIVE Grow(_, _)
Grow(S, R) ==
    LET more == { q \in S \ R : \E p \in R : Adjacent4(p, q) }
    IN IF more = {} THEN R ELSE Grow(S, R \cup more)

Connected4(S) == S = {} \/ Grow(S, {CHOOSE p \in S : TRUE}) = S

\* the height groups (by position) that hold tile k
GroupsHolding(k) ==
    { j \in 1..Len(ret.height_groups) :
        \E e \in SeqRange(ret.height_groups[j].tile_list) : e.tile.id = k }

\* C27: every input tile is in exactly one returned group, once; every
\* returned group is made of tiles of a single height group, whose pixels
\* are within the tolerance of that group's level, and its pixels are
\* connected through up/down/left/right neighbours inside the group.
C27_MergePartitions ==
    MergeDone =>
        LET n == args.rows * args.cols
            groups == 1..Len(ret.merged_groups)
        IN /\ \A k \in 1..n :
                /\ Cardinality({ g \in groups : k \in MergedTiles(g) }) = 1
                /\ \A g \in groups : Occurrences(ret.merged_groups[g].src, k) <= 1
                /\ Cardinality(GroupsHolding(k)) = 1
           /\ \A g \in groups :
                /\ MergedTiles(g) # {} /\ MergedTiles(g) \subseteq 1..n
                /\ \E j \in 1..Len(ret.height_groups) :
                      \A k \in MergedTiles(g) :
                          /\ j \in GroupsHolding(k)
                          /\ within_tolerance(args.pixel_values[k],
                                              ret.height_groups[j].key,
                                              args.tolerance)
                /\ Connected4({ PixelOf(k) : k \in MergedTiles(g) })

\* a 2 x 3 grid where one level gives an L-shaped group of three tiles and,
\* in the same height group, a tile touching it only by a corner
C27_Witness ==
    /\ MergeDone /\ args.rows = 2 /\ args.cols = 3 /\ args.tolerance = 1
    /\ Len(ret.height_groups) = 2
    /\ \E g, h \in 1..Len(ret.merged_groups) :
          /\ g # h
          /\ Cardinality(MergedTiles(g)) = 3 /\ ret.merged_groups[g].id = 0
          /\ Cardinality(MergedTiles(h)) = 1 /\ ret.merged_groups[h].id # 0
          /\ \E k \in MergedTiles(g), l \in MergedTiles(h) :
                /\ GroupsHolding(k) = GroupsHolding(l)
                /\ args.pixel_values[k] # args.pixel_values[l]

GroupsDone == f_pc = "done" /\ "groups" \in DOMAIN ret /\ "face" \in DOMAIN args

\* the state of the generator when cell k draws: one draw per retained cell before it
DrawState(k) ==
    (args.rng + Cardinality({ j \in Retained(args.face) : j < k })) % (RngLast + 1)

\* the height the assigner gives cell k (texture.py:364-376)
AssignedHeight(k) ==
    discretize(args.details,
               random_uniform(args.details.hex_height_min,
                              args.details.hex_height_max, DrawState(k))).height

\* C28: after the grid enumeration every hexagon that passed the filter is
\* in exactly one height group, once, and that group's key is the height
\* assigned to it; no rejected hexagon is in any group; no two groups have
\* the same key; and with height_steps = N > 1 there are at most N groups.
C28_HeightGroupsPartition ==
    (GroupsDone /\ ret.err = "") =>
        LET groups == ret.groups
            holding(k) == { j \in 1..Len(groups) : k \in SeqRange(groups[j].positions) }
        IN /\ \A k \in Retained(args.face) :
                /\ Cardinality(holding(k)) = 1
                /\ \A j \in holding(k) :
                      /\ Occurrences(groups[j].positions, k) = 1
                      /\ groups[j].height = AssignedHeight(k)
           /\ \A k \in (1..Len(args.face)) \ Retained(args.face) : holding(k) = {}
           /\ \A j \in 1..Len(groups) :
                /\ groups[j].positions # <<>>
                /\ SeqRange(groups[j].positions) \subseteq 1..Len(args.face)
           /\ \A i, j \in 1..Len(groups) :
                groups[i].height = groups[j].height => i = j
           /\ args.details.height_steps > 1 =>
                Len(groups) <= args.details.height_steps

\* more retained hexagons than height steps, a rejected cell between them,
\* every step in use and one group holding two hexagons
C28_Witness ==
    /\ GroupsDone /\ ret.err = ""
    /\ args.details.height_steps = 2 /\ Len(args.face) = 4
    /\ Cardinality(Retained(args.face)) = 3 /\ args.face[2] = "outside"
    /\ Len(ret.groups) = 2
    /\ \E j \in 1..2 : Len(ret.groups[j].positions) = 2

\* the prism p after the clip of its face: same hexagon, same reach along the normal
KeptFullHeight(p, prisms) ==
    \E q \in prisms :
        /\ q.face = p.face /\ q.cell = p.cell
        /\ q.bottom = p.bottom /\ q.top = p.top /\ q.height = p.height

\* C25: the clipping volume of a face reaches from -1.5 * hex_height_max to
\* +1.5 * hex_height_max along the normal; every prism of the face's texture
\* reaches from the face plane to a height within [hex_height_min,
\* hex_height_max], so it lies within that reach, and the intersection
\* leaves each prism its full height.
C25_ClipKeepsHeight ==
    [][(t_pc = "clip" /\ t_pc' = "face") =>
          LET span == face_solid(details).span
          IN /\ 2 * span.bottom = -3 * details.hex_height_max
             /\ 2 * span.top = 3 * details.hex_height_max
             /\ \A p \in g_result.prisms :
                   /\ p.bottom = 0 /\ p.top = p.height
                   /\ details.hex_height_min <= p.top
                   /\ p.top <= details.hex_height_max
                   /\ span.bottom <= p.bottom /\ p.top <= span.top
                   /\ KeptFullHeight(p, result'.prisms)]_vars

\* a clipped face whose texture holds a prism of the full hex_height_max,
\* on a hexagon that the clip trims sideways, and a lower one
C25_Witness ==
    /\ t_pc = "face" /\ fi = 2 /\ t_clips = 1
    /\ details.hex_height_min < details.hex_height_max
    /\ \E p, q \in result.prisms :
          /\ p.face = 1 /\ q.face = 1
          /\ p.top = details.hex_height_max /\ p.bottom = 0
          /\ faces[1][p.cell] = "straddles" /\ p.parts = {"in"}
          /\ q.top < p.top

IsHoneycomb == \E j \in 1..Len(args.mro) : args.mro[j] = "HoneycombTexture"

DispatchDone == f_pc = "done" /\ "mro" \in DOMAIN args

\* C26: add_texture forwards a HoneycombTexture to the honeycomb generator
\* and returns what the generator returns (or raises what it raises); for
\* any other TextureDetails value it raises ValueError, the generator is
\* never entered and the workplane is left as it was.
C26_DispatchOnKind ==
    /\ ("mro" \in DOMAIN args /\ ~IsHoneycomb) =>
          /\ t_pc = "idle" /\ result = InputResult /\ workplane = InputWorkplane
          /\ t_unions = 0 /\ t_clips = 0 /\ outcome = "running"
          /\ f_pc = "done" => ret = [outcome |-> "ValueError", value |-> <<>>]
    /\ (DispatchDone /\ IsHoneycomb) =>
          /\ t_pc = "done"
          /\ ret.outcome = outcome
          /\ outcome = "return" => ret.value = result
          /\ outcome # "return" => ret.value = <<>>
    /\ ("mro" \in DOMAIN args /\ f_pc = "forwarded") => IsHoneycomb

\* a honeycomb texture forwarded and its textured result returned, and a
\* texture of another kind refused
C26_Witness ==
    /\ DispatchDone /\ IsHoneycomb /\ args.mro[1] = "HoneycombTexture"
    /\ ret.outcome = "return" /\ ret.value = result
    /\ result.prisms # {} /\ ~result.is_input

C26_WitnessRefused ==
    /\ DispatchDone /\ args.mro[1] = "KnurlTexture" /\ faces # <<>>
    /\ ret.outcome = "ValueError" /\ t_pc = "idle"

CleanDone == f_pc = "done" /\ "self_allow_clean" \in DOMAIN ret

\* C29 (as claimed): after union / cut / intersect with a dtools Workplane
\* as operand the receiver's allow_clean is (its previous allow_clean AND
\* the operand's), the clean passed to the kernel is (requested clean AND
\* that merged flag) and the operand's flag is unchanged; with a plain
\* kernel object as operand the receiver's flag is unchanged.
C29_MergeByConjunction ==
    CleanDone =>
        /\ ret.operand = args.operand
        /\ IF args.operand.kind = "dtools.Workplane"
           THEN /\ ret.self_allow_clean =
                      (args.self_allow_clean /\ args.operand.allow_clean)
                /\ ret.clean = (args.clean /\ args.self_allow_clean
                                            /\ args.operand.allow_clean)
           ELSE /\ ret.self_allow_clean = args.self_allow_clean
                /\ ret.clean = (args.clean /\ args.self_allow_clean)

====
